---- MODULE Spec2Model ----
(***************************************************************************)
(* The API-resource catalog of pkg/apiwatch/resources.go: the              *)
(* resourcesListWatcher (version counter, relist deadline, staleness flag, *)
(* cancellation handles, definer index), its List / Watch / Invalidate     *)
(* operations, the background relist goroutine started by                  *)
(* NewAPIResourceInformer, and the per-Watch goroutine that closes the     *)
(* result channel.  Every section guarded by rlw.mutex is one atomic       *)
(* action; cond.Wait releases the mutex and is a state of the scheduler.   *)
(* Time is a discrete clock `now` in seconds.  What List returns is        *)
(* computed from the answer of the discovery cache as the code computes    *)
(* it; where the code ranges over a Go map, every order is a possible      *)
(* result.                                                                 *)
(***************************************************************************)
EXTENDS Integers, Sequences, FiniteSets, TLC

\* ------------------------------------------------------------- bounds
MaxVersion == 3       \* the version counter is not advanced beyond this
MaxIndexVersion == 5  \* the same, in the specification of the definer index
MaxListVersion == 4   \* the same, in the specification of List's output
MaxTime == 30         \* the clock stops here
TickStep == 10        \* granularity of the clock, in seconds
MaxSessions == 2      \* successful Watch calls per behaviour
NumListers == 2       \* goroutines that may be inside List at once

\* -------------------------------------------------- program constants
RelistDelay == 20     \* time.Second * 20
InitialVersion == 1   \* resourceVersionI: 1

VARIABLES
  resourceVersionI,   \* rlw.resourceVersionI
  needRelist,         \* rlw.needRelist
  relistAfter,        \* rlw.relistAfter
  cancels,            \* rlw.cancels: sequence of cancel funcs (session ids)
  rscToDefiners,      \* rlw.rscToDefiners: GVR -> set of objectID
  definerToRscs,      \* rlw.definerToRscs: objectID -> set of GVR
  cacheValid,         \* rlw.cache holds a copy of the client's answer
  ctxDone,            \* rlw.ctx is cancelled
  now,                \* time.Now()
  schedPC,            \* position of the relist goroutine
  sleepUntil,         \* earliest return of the goroutine's time.Sleep(wait)
  sessions,           \* the resourceWatch objects, by session id
  listPC,             \* position of each goroutine calling List
  listRV,             \* List's local resourceVersionI, per caller
  listed,             \* the ListMeta.ResourceVersion strings List has returned
  ret,                \* the value the last List or Watch call returned
  invInBurst,         \* invalidations of the current burst (history)
  wavesInBurst,       \* cancel-all waves of the scheduler since the burst began
  panicked,           \* invalidateWithDefinerLocked panicked
  includeSubresources, \* rlw.includeSubresources
  fetched,            \* what the discovery cache answered, per caller of List
  lastList,           \* the feed, index and items of the last List return (history)
  issued              \* the last InvalidateWithDefiner call per definer (history)

vars == <<resourceVersionI, needRelist, relistAfter, cancels, rscToDefiners,
          definerToRscs, cacheValid, ctxDone, now, schedPC, sleepUntil,
          sessions, listPC, listRV, listed, ret, invInBurst, wavesInBurst,
          panicked, includeSubresources, fetched, lastList, issued>>

Listers == 1..NumListers

\* ------------------------------------------------------------ strconv
Digits == <<"0", "1", "2", "3", "4", "5", "6", "7", "8", "9">>

RECURSIVE FormatNat(_)
FormatNat(n) ==
  IF n < 10 THEN Digits[n + 1] ELSE FormatNat(n \div 10) \o Digits[(n % 10) + 1]

\* strconv.FormatInt(i, 10)
FormatInt(i) == IF i < 0 THEN "-" \o FormatNat(-i) ELSE FormatNat(i)

\* --------------------------------------------------- definers, GVRs
Nil == "nil"            \* a nil supplier
NilObj == [nil |-> TRUE]  \* a nil obj

\* Objects that notification sources deliver, with the GVK the supplier's
\* GetGVK reports for them and their metadata name.
ObjWidget == [nil |-> FALSE, gvk |-> [Group |-> "apiextensions.k8s.io", Version |-> "v1", Kind |-> "CRD"],
              name |-> "Widget"]
ObjBinding == [nil |-> FALSE, gvk |-> [Group |-> "", Version |-> "v1alpha1", Kind |-> "APIBinding"],
               name |-> "b"]
ObjNoKind == [nil |-> FALSE, gvk |-> [Group |-> "", Version |-> "", Kind |-> ""],
              name |-> "x"]

GoodObjects == {ObjWidget, ObjBinding}
Objects == GoodObjects \cup {ObjNoKind}

Supplier == "supplier"
Suppliers == {Nil, Supplier}

GVRWidgets == [Group |-> "example.com", Version |-> "v1", Resource |-> "widgets"]
GVRGadgets == [Group |-> "example.com", Version |-> "v1", Resource |-> "gadgets"]
GVRs == {GVRWidgets, GVRGadgets}

\* schema.GroupVersionKind.ToAPIVersionAndKind
ToAPIVersionAndKind(gvk) ==
  IF gvk.Group = "" /\ gvk.Version = "" /\ gvk.Kind = ""
  THEN <<"", "">>
  ELSE <<IF gvk.Group = "" THEN gvk.Version ELSE gvk.Group \o "/" \o gvk.Version,
         gvk.Kind>>

\* oid := objectID{apiVersion, kind, objM.GetName()}
ObjectIDOf(obj) ==
  LET ak == ToAPIVersionAndKind(obj.gvk)
  IN [APIVersion |-> ak[1], Kind |-> ak[2], Name |-> obj.name]

ObjectIDs == {ObjectIDOf(o) : o \in GoodObjects}

\* A Go map read: the zero value (an empty set) for an absent key.
MapGet(m, k) == IF k \in DOMAIN m THEN m[k] ELSE {}

\* A Go map with key k set to the set v, or with k deleted when v is empty.
MapPut(m, k, v) ==
  IF v = {}
  THEN [x \in DOMAIN m \ {k} |-> m[x]]
  ELSE [x \in DOMAIN m \cup {k} |-> IF x = k THEN v ELSE m[x]]

\* setDefinerLocked(oid, enumr): the index pair after installing newRscs as
\* the resource set of oid.
setDefinerLocked(r2d, d2r, oid, newRscs) ==
  LET old == MapGet(d2r, oid)
      removed == old \ newRscs
      added == newRscs \ old
      touched == removed \cup added
      defs(r) == IF r \in removed THEN MapGet(r2d, r) \ {oid}
                 ELSE IF r \in added THEN MapGet(r2d, r) \cup {oid}
                 ELSE MapGet(r2d, r)
      keys == {r \in DOMAIN r2d \cup touched : defs(r) # {}}
  IN [r2d |-> [r \in keys |-> defs(r)],
      d2r |-> MapPut(d2r, oid, newRscs)]


\* ----------------------------------------------------- small steps
\* Mutant: the invalidation forgets to advance the version
InvalidateVersionKept(v) == v

\* rlw.resourceVersionI += 1
InvalidateVersion(v) == v + 1

\* Mutant: the deadline is set without the delay
RelistDeadlineNow(t) == t

\* rlw.relistAfter = time.Now().Add(time.Second * 20)
RelistDeadline(t) == t + RelistDelay

\* Mutant: List stamps the version it found
ListVersionKept(v) == v

\* rlw.resourceVersionI = rlw.resourceVersionI + 1
ListVersion(v) == v + 1

\* Mutant: the relist goroutine does not wait for the deadline
DeadlineIgnored(t, after) == TRUE

\* !now.Before(rlw.relistAfter)
DeadlineReached(t, after) == ~(t < after)

\* Mutant: the versions are compared as integers, so a leading zero passes
VersionMatchesAsNumber(resourceVersionS, optsRV) ==
  optsRV \in {resourceVersionS, "0" \o resourceVersionS}

\* !(resourceVersionS != opts.ResourceVersion)
VersionMatches(resourceVersionS, optsRV) == resourceVersionS = optsRV

\* cancel(): the session's context is cancelled (idempotent)
cancel(ss, id) == [ss EXCEPT ![id].cancelled = TRUE]

RECURSIVE CancelEach(_, _, _)
CancelEach(ss, cs, i) ==
  IF i > Len(cs) THEN ss ELSE CancelEach(cancel(ss, cs[i]), cs, i + 1)

\* Mutant: List cancels the most recent watch only
ListCancelsLast(ss, cs) == IF cs = <<>> THEN ss ELSE cancel(ss, cs[Len(cs)])

\* List: for _, cancel := range rlw.cancels { cancel() }
ListCancels(ss, cs) == CancelEach(ss, cs, 1)

\* Mutant: the wave cancels the first registered watch only
WaveCancelsFirst(ss, cs) == IF cs = <<>> THEN ss ELSE cancel(ss, cs[1])

\* Mutant: the wave clears the flag and cancels nothing
WaveCancelsNone(ss, cs) == ss

\* scheduler: for _, cancel := range rlw.cancels { cancel() }
WaveCancels(ss, cs) == CancelEach(ss, cs, 1)

\* Mutant: the context is made with WithCancel, so no deadline ends it
SessionDoneNoTimeout(s) == s.cancelled \/ ctxDone

\* ctx, cancel := context.WithTimeout(rlw.ctx, timeout): ctx.Done() is closed
\* once cancel was called, the parent is done, or the deadline passed.
SessionDone(s) == s.cancelled \/ ctxDone \/ now >= s.deadline

\* rw := &resourceWatch{...}; results: make(chan watch.Event)
NewSession(version, timeout) ==
  [rv |-> version, deadline |-> now + timeout, cancelled |-> FALSE,
   goroutine |-> "waiting", closes |-> 0, results |-> <<>>]

\* Mutant: the goroutine closes the channel and waits for the context again
EndOfWatchAgain(s) == [s EXCEPT !.closes = s.closes + 1]

\* Mutant: the goroutine sends an error event before it closes the channel
EndOfWatchWithEvent(s) ==
  [s EXCEPT !.goroutine = "exited", !.closes = s.closes + 1,
            !.results = Append(s.results, "ERROR")]

\* go func() { <-ctx.Done(); close(rw.results) }()
EndOfWatch(s) == [s EXCEPT !.goroutine = "exited", !.closes = s.closes + 1]

\* ------------------------------------------------- the discovery feed
\* Go strings that the code splits or concatenates are sequences of
\* characters; Str gives the string a sequence spells.
RECURSIVE Str(_)
Str(cs) == IF cs = <<>> THEN "" ELSE Head(cs) \o Str(Tail(cs))

Slash == <<"/">>
Colon == <<":">>
NameExample == <<"e", "x", "a", "m", "p", "l", "e", ".", "c", "o", "m">>
NameV1 == <<"v", "1">>
NameV2 == <<"v", "2">>
NameWidgets == <<"w", "i", "d", "g", "e", "t", "s">>
NameGadgets == <<"g", "a", "d", "g", "e", "t", "s">>
NamePods == <<"p", "o", "d", "s">>
NameStatus == <<"s", "t", "a", "t", "u", "s">>
NameScale == <<"s", "c", "a", "l", "e">>

\* A metav1.APIResource of the feed; Version is left empty, as discovery does
APIResourceOf(name, kind) == [Name |-> name, Version |-> <<>>, Kind |-> kind]

\* metav1.APIGroup and metav1.APIResourceList values the client may report
GroupExample == [Name |-> NameExample, PreferredVersion |-> NameV1]
GroupCore == [Name |-> <<>>, PreferredVersion |-> NameV1]
ResourcesExampleV1 ==
  [GroupVersion |-> NameExample \o Slash \o NameV1,
   APIResources |-> <<APIResourceOf(NameWidgets, "Widget"),
                      APIResourceOf(NameWidgets \o Slash \o NameStatus, "Widget"),
                      APIResourceOf(NameGadgets, "Gadget")>>]
ResourcesExampleV1Partial ==
  [GroupVersion |-> NameExample \o Slash \o NameV1,
   APIResources |-> <<APIResourceOf(NameWidgets, "Widget")>>]
ResourcesExampleV2 ==
  [GroupVersion |-> NameExample \o Slash \o NameV2,
   APIResources |-> <<APIResourceOf(NameWidgets, "Widget")>>]
ResourcesMalformed ==
  [GroupVersion |-> NameExample \o Slash \o NameV1 \o Slash \o NameV2,
   APIResources |-> <<APIResourceOf(NameGadgets, "Gadget")>>]
ResourcesCoreV1 ==
  [GroupVersion |-> NameV1,
   APIResources |-> <<APIResourceOf(NamePods, "Pod"),
                      APIResourceOf(NamePods \o Slash \o NameStatus, "Pod"),
                      APIResourceOf(NamePods \o Slash \o NameScale, "Scale"),
                      APIResourceOf(NamePods \o Slash \o NameScale \o Slash \o NameStatus,
                                    "Scale"),
                      APIResourceOf(NameWidgets \o Slash \o NameStatus, "Widget")>>]

\* What rlw.cache.ServerGroupsAndResources() returns (ServerPreferredResources
\* returns the resourceList and the err of it)
NoData == [groupList |-> <<>>, resourceList |-> <<>>, err |-> FALSE]
FailedNoData == [groupList |-> <<>>, resourceList |-> <<>>, err |-> TRUE]
FailedPartial ==
  [groupList |-> <<GroupExample>>, resourceList |-> <<ResourcesExampleV1Partial>>,
   err |-> TRUE]
FeedExample ==
  [groupList |-> <<GroupExample>>, resourceList |-> <<ResourcesExampleV1>>,
   err |-> FALSE]
FeedCore ==
  [groupList |-> <<GroupCore>>, resourceList |-> <<ResourcesCoreV1>>, err |-> FALSE]
FeedMixed ==
  [groupList |-> <<GroupExample>>,
   resourceList |-> <<ResourcesExampleV2, ResourcesMalformed, ResourcesExampleV1>>,
   err |-> FALSE]

DiscoveryAnswers ==
  {NoData, FailedNoData, FailedPartial, FeedExample, FeedCore, FeedMixed}

\* strings.Split(s, "/")
RECURSIVE Split(_)
Split(cs) ==
  IF \A i \in 1..Len(cs) : <<cs[i]>> # Slash
  THEN <<cs>>
  ELSE LET i == CHOOSE k \in 1..Len(cs) :
                  <<cs[k]>> = Slash /\ \A j \in 1..(k - 1) : <<cs[j]>> # Slash
       IN <<SubSeq(cs, 1, i - 1)>> \o Split(SubSeq(cs, i + 1, Len(cs)))

\* schema.ParseGroupVersion
ParseGroupVersion(cs) ==
  LET parts == Split(cs)
  IN IF cs = <<>> \/ cs = Slash
     THEN [Group |-> <<>>, Version |-> <<>>, err |-> FALSE]
     ELSE IF Len(parts) = 1
     THEN [Group |-> <<>>, Version |-> cs, err |-> FALSE]
     ELSE IF Len(parts) = 2
     THEN [Group |-> parts[1], Version |-> parts[2], err |-> FALSE]
     ELSE [Group |-> <<>>, Version |-> <<>>, err |-> TRUE]

\* The orders in which a Go range statement may visit the keys of a map
RECURSIVE Perms(_)
Perms(S) ==
  IF S = {} THEN {<<>>}
  ELSE UNION {{<<x>> \o p : p \in Perms(S \ {x})} : x \in S}

\* Mutant: the definers are left out
definersToSliceNone(asSet) == {<<>>}

\* definersToSlice(asSet): one slice per order of the range over the set
definersToSlice(asSet) ==
  {[i \in 1..Len(p) |-> [Kind |-> p[i].Kind, Name |-> p[i].Name]] :
     p \in Perms(asSet)}

\* enumAPIResourcesLocked: the sequences of specs the consumer may be given
RECURSIVE enumAPIResourcesLocked(_, _, _)
enumAPIResourcesLocked(gv, mrs, r2d) ==
  IF mrs = <<>> THEN {<<>>}
  ELSE LET rsc == Head(mrs)
           rscVersion == IF rsc.Version = <<>> THEN gv.Version ELSE rsc.Version
           gvr == [Group |-> Str(gv.Group), Version |-> Str(rscVersion),
                   Resource |-> Str(rsc.Name)]
       IN {<<[Name |-> rsc.Name, Group |-> gv.Group, Version |-> rscVersion,
              Kind |-> rsc.Kind, Definers |-> definers, SubResources |-> <<>>]>>
             \o rest :
             definers \in definersToSlice(MapGet(r2d, gvr)),
             rest \in enumAPIResourcesLocked(gv, Tail(mrs), r2d)}

\* specComplete(spec, resourceVersionS, gv)
specComplete(spec, resourceVersionS, gv) ==
  [Name |-> gv.Group \o Colon \o gv.Version \o Colon \o spec.Name,
   ResourceVersion |-> resourceVersionS,
   Spec |-> spec]

\* An arMap is a function from a path segment to an arTuple
\* [spec, subresources]; spec is <<>> for nil and <<s>> for a pointer to s.
RECURSIVE insert(_, _, _)
insert(am, name, spec) ==
  LET art == IF name[1] \in DOMAIN am
             THEN am[name[1]]
             ELSE [spec |-> <<>>, subresources |-> <<>>]
      art2 == IF Len(name) < 2
              THEN [art EXCEPT !.spec = <<spec>>]
              ELSE [art EXCEPT !.subresources = insert(art.subresources, Tail(name), spec)]
  IN [k \in DOMAIN am \cup {name[1]} |-> IF k = name[1] THEN art2 ELSE am[k]]

\* The arMap after the consumer of listWithSubresources saw specs, in order
RECURSIVE InsertAll(_, _)
InsertAll(am, specs) ==
  IF specs = <<>> THEN am
  ELSE InsertAll(insert(am, Split(Head(specs).Name), Head(specs)), Tail(specs))

RECURSIVE toList(_)
RECURSIVE toListInOrder(_, _)

\* Mutant: a node without a spec of its own is emitted as an empty spec
toListInOrderWithGaps(am, order) ==
  IF order = <<>> THEN {<<>>}
  ELSE LET name == Head(order)
           art == am[name]
           own == IF art.spec = <<>>
                  THEN [Name |-> name, Group |-> <<>>, Version |-> <<>>, Kind |-> "",
                        Definers |-> <<>>, SubResources |-> <<>>]
                  ELSE art.spec[1]
       IN {<<[own EXCEPT !.Name = name, !.SubResources = subs]>> \o rest :
             subs \in toList(art.subresources),
             rest \in toListInOrder(am, Tail(order))}

\* The body of toList's loop, for the keys of am in the given order: the
\* sequences of specs that consume may be called with
toListInOrder(am, order) ==
  IF order = <<>> THEN {<<>>}
  ELSE LET name == Head(order)
           art == am[name]
       IN IF art.spec = <<>>
          THEN toListInOrder(am, Tail(order))
          ELSE {<<[art.spec[1] EXCEPT !.Name = name, !.SubResources = subs]>> \o rest :
                  subs \in toList(art.subresources),
                  rest \in toListInOrder(am, Tail(order))}

\* am.toList(logger, prefix, consume), for every order of the range over am
toList(am) == UNION {toListInOrder(am, order) : order \in Perms(DOMAIN am)}

\* groupToVersion[name], after the loop over groupList
groupToVersion(groupList, name) ==
  LET hits == {i \in 1..Len(groupList) : groupList[i].Name = name}
  IN IF hits = {} THEN <<>>
     ELSE groupList[CHOOSE i \in hits : \A j \in hits : j <= i].PreferredVersion

\* The sequence of APIResources made of specs
Completed(specs, resourceVersionS, gv) ==
  [i \in 1..Len(specs) |-> specComplete(specs[i], resourceVersionS, gv)]

\* listWithSubresources: the values of ans it may return
RECURSIVE listWithSubresources(_, _, _, _)
listWithSubresources(groupList, resourceList, resourceVersionS, r2d) ==
  IF resourceList = <<>> THEN {<<>>}
  ELSE LET group == Head(resourceList)
           gv == ParseGroupVersion(group.GroupVersion)
           rest == listWithSubresources(groupList, Tail(resourceList),
                                        resourceVersionS, r2d)
       IN IF gv.err \/ groupToVersion(groupList, gv.Group) # gv.Version
          THEN rest
          ELSE {Completed(specs, resourceVersionS, gv) \o r :
                  specs \in UNION {toList(InsertAll(<<>>, ars)) :
                                     ars \in enumAPIResourcesLocked(gv, group.APIResources, r2d)},
                  r \in rest}

\* listSansSubresources: the values of ans it may return
RECURSIVE listSansSubresources(_, _, _)
listSansSubresources(resourceList, resourceVersionS, r2d) ==
  IF resourceList = <<>> THEN {<<>>}
  ELSE LET group == Head(resourceList)
           gv == ParseGroupVersion(group.GroupVersion)
           rest == listSansSubresources(Tail(resourceList), resourceVersionS, r2d)
       IN IF gv.err
          THEN rest
          ELSE {Completed(specs, resourceVersionS, gv) \o r :
                  specs \in enumAPIResourcesLocked(gv, group.APIResources, r2d),
                  r \in rest}

\* Mutant: the error of the discovery cache is returned to the caller
ListErrorPropagated(discoveryErr) == IF discoveryErr THEN "DiscoveryFailed" ELSE "nil"

\* return ans, nil: the err that listWithSubresources and listSansSubresources
\* return when the discovery cache returned discoveryErr
ListError(discoveryErr) == "nil"

\* ------------------------------------------------------------- Init
\* The state NewAPIResourceInformer(ctx, clusterName, client, sub, ...) leaves
\* behind: version 1, nothing stale, empty maps, an unfilled cache, the relist
\* goroutine at the top of its loop.
InitState(sub) ==
  /\ resourceVersionI = InitialVersion
  /\ needRelist = FALSE
  /\ relistAfter = 0
  /\ cancels = <<>>
  /\ rscToDefiners = <<>>
  /\ definerToRscs = <<>>
  /\ cacheValid = FALSE
  /\ ctxDone = FALSE
  /\ now = 0
  /\ schedPC = "select"
  /\ sleepUntil = 0
  /\ sessions = <<>>
  /\ listPC = [c \in Listers |-> "idle"]
  /\ listRV = [c \in Listers |-> 0]
  /\ listed = {}
  /\ ret = [op |-> "none", rv |-> "", err |-> "nil", items |-> <<>>]
  /\ invInBurst = 0
  /\ wavesInBurst = 0
  /\ panicked = FALSE
  /\ includeSubresources = sub
  /\ fetched = [c \in Listers |-> NoData]
  /\ lastList = [made |-> FALSE, feed |-> NoData, r2d |-> <<>>, items |-> <<>>]
  /\ issued = <<>>

\* An informer made with includeSubresources = true
Init == InitState(TRUE)

\* An informer made with either value of includeSubresources
InitAny == \E sub \in BOOLEAN : InitState(sub)

idxVars == <<rscToDefiners, definerToRscs>>
staleVars == <<needRelist, relistAfter>>
schedVars == <<schedPC, sleepUntil>>
listVars == <<listPC, listRV, listed>>
histVars == <<invInBurst, wavesInBurst>>
feedVars == <<includeSubresources, fetched, lastList>>

\* ---------------------------------------------------- rlw.mutex
\* Mutant: time.Sleep(wait) is called inside the closure, before its
\* deferred Unlock
SchedHoldsMutexAsleep(pc) == pc = "sleep"

\* Whether the relist goroutine holds rlw.mutex while it stands at pc, between
\* two of its steps.  It never does: the select and the Lock come before the
\* critical section, cond.Wait unlocks the mutex while it waits and locks it
\* again to return, and time.Sleep comes after the closure with its deferred
\* Unlock has returned.
SchedHoldsMutex(pc) == FALSE

\* Mutant: List queries the discovery cache inside its first critical section
ListHoldsMutexFetching(pc) == pc = "fetch"

\* Whether a caller of List holds rlw.mutex while it stands at pc.  It never
\* does: the first critical section has ended before the cache is queried,
\* and listWithSubresources / listSansSubresources lock after the query.
ListHoldsMutex(pc) == FALSE

\* rlw.mutex.Lock() returns at once
MutexFree ==
  /\ ~SchedHoldsMutex(schedPC)
  /\ \A c \in Listers : ~ListHoldsMutex(listPC[c])

\* ------------------------------------------------- invalidation
\* Mutant: the broadcast reaches nobody
BroadcastLost(pc) == pc

\* rlw.cond.Broadcast(): the relist goroutine, if parked in cond.Wait, is woken
Broadcast(pc) == IF pc = "condwait" THEN "woken" ELSE pc

\* if set { enumr = supplier.EnumerateDefinedResources(obj) }, else enumerateNothing
Enumerated(set, defined) == IF set THEN defined ELSE {}

\* Mutant: a deletion removes the definer's own entry and leaves the reverse
\* mapping alone
DefinerIndexAfterForwardDelete(r2d, d2r, obj, set, defined) ==
  IF set
  THEN setDefinerLocked(r2d, d2r, ObjectIDOf(obj), defined)
  ELSE [r2d |-> r2d, d2r |-> MapPut(d2r, ObjectIDOf(obj), {})]

\* Mutant: the update is computed from a copy of the index read before any
\* other call wrote it, and written back
DefinerIndexAfterLostUpdate(r2d, d2r, obj, set, defined) ==
  setDefinerLocked(<<>>, <<>>, ObjectIDOf(obj), IF set THEN defined ELSE {})

\* Mutant: the enumerated resources are added to the definer's set, and the
\* ones it no longer defines stay
DefinerIndexAfterMerge(r2d, d2r, obj, set, defined) ==
  setDefinerLocked(r2d, d2r, ObjectIDOf(obj),
                   IF set THEN MapGet(d2r, ObjectIDOf(obj)) \cup defined ELSE {})

\* Mutant: an emptied set is stored instead of its key being deleted
DefinerIndexAfterRetainEmpty(r2d, d2r, obj, set, defined) ==
  LET oid == ObjectIDOf(obj)
      new == IF set THEN defined ELSE {}
  IN [r2d |-> [r \in DOMAIN r2d \cup new |->
                 IF r \in new THEN MapGet(r2d, r) \cup {oid} ELSE r2d[r] \ {oid}],
      d2r |-> [d \in DOMAIN d2r \cup {oid} |-> IF d = oid THEN new ELSE d2r[d]]]

\* The definer index after the part of invalidateWithDefinerLocked that follows
\* the nil checks, for an object whose identity is complete
DefinerIndexAfter(r2d, d2r, obj, set, defined) ==
  setDefinerLocked(r2d, d2r, ObjectIDOf(obj), Enumerated(set, defined))

\* Mutant: only a nil object ends the call early
NoDefinerUnlessObjNil(obj, supplier) == obj.nil

\* if obj == nil || supplier == nil { return }
NoDefiner(obj, supplier) == obj.nil \/ supplier = Nil

\* invalidateWithDefinerLocked(obj, supplier, set), called with the mutex
\* held; defined is what supplier.EnumerateDefinedResources(obj) enumerates.
invalidateWithDefinerLocked(obj, supplier, set, defined) ==
  /\ MutexFree
  /\ resourceVersionI' = InvalidateVersion(resourceVersionI)
  /\ relistAfter' = RelistDeadline(now)
  /\ needRelist' = TRUE
  /\ cacheValid' = FALSE
  /\ schedPC' = Broadcast(schedPC)
  /\ IF now >= relistAfter
     THEN invInBurst' = 1 /\ wavesInBurst' = 0
     ELSE invInBurst' = invInBurst + 1 /\ UNCHANGED wavesInBurst
  /\ IF NoDefiner(obj, supplier)
     THEN UNCHANGED <<idxVars, panicked>>
     ELSE LET oid == ObjectIDOf(obj)
          IN IF oid.APIVersion = "" \/ oid.Kind = ""
             THEN panicked' = TRUE /\ UNCHANGED idxVars
             ELSE LET idx == DefinerIndexAfter(rscToDefiners, definerToRscs,
                                               obj, set, defined)
                  IN /\ rscToDefiners' = idx.r2d
                     /\ definerToRscs' = idx.d2r
                     /\ UNCHANGED panicked
  /\ UNCHANGED <<cancels, ctxDone, now, sleepUntil, sessions, listVars, ret,
                 feedVars>>

\* func (rlw *resourcesListWatcher) Invalidate()
Invalidate ==
  invalidateWithDefinerLocked(NilObj, Nil, FALSE, {}) /\ UNCHANGED issued

\* func (rlw *resourcesListWatcher) InvalidateWithDefiner(obj, supplier, set);
\* the history variable issued is left to the caller
InvalidateWithDefiner(obj, supplier, set, defined) ==
  invalidateWithDefinerLocked(obj, supplier, set, defined)

\* AddFunc / UpdateFunc of a notifier: InvalidateWithDefiner(obj, supplier, true),
\* for the objects objs whose definitions range over the subsets of gvrs
NotifyAddOrUpdate(objs, gvrs) ==
  \E obj \in objs, supplier \in Suppliers, defined \in SUBSET gvrs :
    InvalidateWithDefiner(obj, supplier, TRUE, defined) /\ UNCHANGED issued

\* DeleteFunc of a notifier: InvalidateWithDefiner(obj, supplier, false)
NotifyDelete(objs) ==
  \E obj \in objs, supplier \in Suppliers :
    InvalidateWithDefiner(obj, supplier, FALSE, {}) /\ UNCHANGED issued

\* The history of calls after InvalidateWithDefiner(obj, supplier, set): a
\* call that reaches setDefinerLocked is the latest call of its definer
IssuedAfter(obj, supplier, set, defined) ==
  IF obj.nil \/ supplier = Nil \/ "" \in {ObjectIDOf(obj).APIVersion, ObjectIDOf(obj).Kind}
  THEN issued
  ELSE [d \in DOMAIN issued \cup {ObjectIDOf(obj)} |->
          IF d = ObjectIDOf(obj)
          THEN [present |-> set, rscs |-> IF set THEN defined ELSE {}]
          ELSE issued[d]]

\* NotifyAddOrUpdate, with the call recorded in issued
NotifyAddOrUpdateLogged(objs, gvrs) ==
  \E obj \in objs, supplier \in Suppliers, defined \in SUBSET gvrs :
    /\ InvalidateWithDefiner(obj, supplier, TRUE, defined)
    /\ issued' = IssuedAfter(obj, supplier, TRUE, defined)

\* NotifyDelete, with the call recorded in issued
NotifyDeleteLogged(objs) ==
  \E obj \in objs, supplier \in Suppliers :
    /\ InvalidateWithDefiner(obj, supplier, FALSE, {})
    /\ issued' = IssuedAfter(obj, supplier, FALSE, {})

\* ------------------------------------------------------------ Watch
\* The resourceVersion strings a caller may pass: the current one, the one
\* before, the current one with a leading zero, the empty string, and any
\* string an earlier List returned.
RVChoices ==
  {FormatInt(resourceVersionI), FormatInt(resourceVersionI - 1),
   "0" \o FormatInt(resourceVersionI), ""} \cup listed

\* A caller that passes the current version only
RVCurrent == {FormatInt(resourceVersionI)}

\* opts.TimeoutSeconds
TimeoutChoices == {10, 20}

\* func (rlw *resourcesListWatcher) Watch(opts)
Watch(optsRV, timeoutSeconds) ==
  MutexFree /\
  LET resourceVersionS == FormatInt(resourceVersionI)
  IN IF ~VersionMatches(resourceVersionS, optsRV)
     THEN /\ ret' = [op |-> "Watch", rv |-> optsRV, err |-> "Expired", items |-> <<>>]
          /\ UNCHANGED <<resourceVersionI, staleVars, cancels, idxVars,
                         cacheValid, ctxDone, now, schedVars, sessions,
                         listVars, histVars, panicked,
                 feedVars, issued>>
     ELSE /\ Len(sessions) < MaxSessions
          /\ now + timeoutSeconds <= MaxTime
          /\ sessions' = Append(sessions, NewSession(resourceVersionI, timeoutSeconds))
          /\ cancels' = Append(cancels, Len(sessions) + 1)
          /\ ret' = [op |-> "Watch", rv |-> optsRV, err |-> "nil", items |-> <<>>]
          /\ UNCHANGED <<resourceVersionI, staleVars, idxVars, cacheValid,
                         ctxDone, now, schedVars, listVars, histVars, panicked,
                 feedVars, issued>>

\* func (rw *resourceWatch) Stop()
Stop(id) ==
  /\ id \in 1..Len(sessions)
  /\ sessions' = cancel(sessions, id)
  /\ UNCHANGED <<resourceVersionI, staleVars, cancels, idxVars, cacheValid,
                 ctxDone, now, schedVars, listVars, ret, histVars, panicked,
                 feedVars, issued>>

\* The goroutine Watch starts: <-ctx.Done(); close(rw.results)
WatchGoroutine(id) ==
  /\ id \in 1..Len(sessions)
  /\ sessions[id].goroutine = "waiting"
  /\ SessionDone(sessions[id])
  /\ sessions' = [sessions EXCEPT ![id] = EndOfWatch(sessions[id])]
  /\ UNCHANGED <<resourceVersionI, staleVars, cancels, idxVars, cacheValid,
                 ctxDone, now, schedVars, listVars, ret, histVars, panicked,
                 feedVars, issued>>

\* ------------------------------------------------------------- List
\* List's first critical section: bump the version, cancel every watch
ListLocked(c) ==
  /\ listPC[c] = "idle"
  /\ MutexFree
  /\ resourceVersionI' = ListVersion(resourceVersionI)
  /\ sessions' = ListCancels(sessions, cancels)
  /\ listRV' = [listRV EXCEPT ![c] = resourceVersionI']
  /\ listPC' = [listPC EXCEPT ![c] = "fetch"]
  /\ UNCHANGED <<staleVars, cancels, idxVars, cacheValid, ctxDone, now,
                 schedVars, listed, ret, histVars, panicked,
                 feedVars, issued>>

\* rlw.cache.ServerGroupsAndResources() / ServerPreferredResources(), without
\* the mutex: an invalid cache asks the client again and is valid afterwards;
\* answer is what the call returns
ListFetch(c, answer) ==
  /\ listPC[c] = "fetch"
  /\ cacheValid' = TRUE
  /\ fetched' = [fetched EXCEPT ![c] = answer]
  /\ listPC' = [listPC EXCEPT ![c] = "enum"]
  /\ UNCHANGED <<resourceVersionI, staleVars, cancels, idxVars, ctxDone, now,
                 schedVars, sessions, listRV, listed, ret, histVars, panicked,
                 includeSubresources, lastList, issued>>

\* The values of ans.Items that List may return for what was fetched
ListItems(sub, answer, resourceVersionS, r2d) ==
  IF sub
  THEN listWithSubresources(answer.groupList, answer.resourceList,
                            resourceVersionS, r2d)
  ELSE listSansSubresources(answer.resourceList, resourceVersionS, r2d)

\* List's second critical section (the enumeration against the definer
\* index) and its return, when the enumeration gives items; the history
\* variable lastList is left to the caller
ListReturnOf(c, items) ==
  /\ listPC[c] = "enum"
  /\ MutexFree
  /\ items \in ListItems(includeSubresources, fetched[c], FormatInt(listRV[c]),
                          rscToDefiners)
  /\ LET resourceVersionS == FormatInt(listRV[c])
     IN /\ ret' = [op |-> "List", rv |-> resourceVersionS,
                   err |-> ListError(fetched[c].err), items |-> items]
        /\ listed' = listed \cup {resourceVersionS}
  /\ listPC' = [listPC EXCEPT ![c] = "idle"]
  /\ listRV' = [listRV EXCEPT ![c] = 0]
  /\ fetched' = [fetched EXCEPT ![c] = NoData]
  /\ UNCHANGED <<resourceVersionI, staleVars, cancels, idxVars, cacheValid,
                 ctxDone, now, schedVars, sessions, histVars, panicked,
                 includeSubresources, issued>>

\* The end of a List call
ListReturn(c) ==
  \E items \in ListItems(includeSubresources, fetched[c], FormatInt(listRV[c]),
                          rscToDefiners) :
    ListReturnOf(c, items) /\ UNCHANGED lastList

\* ListReturn, with what was returned, and from what, recorded in lastList
ListReturnLogged(c) ==
  \E items \in ListItems(includeSubresources, fetched[c], FormatInt(listRV[c]),
                          rscToDefiners) :
    /\ ListReturnOf(c, items)
    /\ lastList' = [made |-> TRUE, feed |-> fetched[c],
                    r2d |-> rscToDefiners, items |-> items]

\* -------------------------------------------- the relist goroutine
\* select { case <-doneCh: return; default: }
SchedSelect ==
  /\ schedPC = "select"
  /\ schedPC' = IF ctxDone THEN "exited" ELSE "lock"
  /\ UNCHANGED <<resourceVersionI, staleVars, cancels, idxVars, cacheValid,
                 ctxDone, now, sleepUntil, sessions, listVars, ret, histVars,
                 panicked,
                 feedVars, issued>>

\* needRelist and now.Before(relistAfter): wait = relistAfter.Sub(now), then
\* time.Sleep(wait) after the unlock
SchedSleep ==
  /\ schedPC = "lock"
  /\ MutexFree
  /\ needRelist
  /\ ~DeadlineReached(now, relistAfter)
  /\ sleepUntil' = now + (relistAfter - now)
  /\ schedPC' = "sleep"
  /\ UNCHANGED <<resourceVersionI, staleVars, cancels, idxVars, cacheValid,
                 ctxDone, now, sessions, listVars, ret, histVars, panicked,
                 feedVars, issued>>

\* needRelist and the deadline passed: cancel every watch, clear needRelist
SchedWave ==
  /\ schedPC = "lock"
  /\ MutexFree
  /\ needRelist
  /\ DeadlineReached(now, relistAfter)
  /\ sessions' = WaveCancels(sessions, cancels)
  /\ needRelist' = FALSE
  /\ wavesInBurst' = wavesInBurst + 1
  /\ schedPC' = "select"
  /\ UNCHANGED <<resourceVersionI, relistAfter, cancels, idxVars, cacheValid,
                 ctxDone, now, sleepUntil, listVars, ret, invInBurst, panicked,
                 feedVars, issued>>

\* !needRelist: rlw.cond.Wait(), which releases the mutex
SchedWait ==
  /\ schedPC = "lock"
  /\ MutexFree
  /\ ~needRelist
  /\ schedPC' = "condwait"
  /\ UNCHANGED <<resourceVersionI, staleVars, cancels, idxVars, cacheValid,
                 ctxDone, now, sleepUntil, sessions, listVars, ret, histVars,
                 panicked,
                 feedVars, issued>>

\* cond.Wait() locks the mutex again and returns after a Broadcast; the
\* closure returns with wait = 0
SchedWoken ==
  /\ schedPC = "woken"
  /\ MutexFree
  /\ schedPC' = "select"
  /\ UNCHANGED <<resourceVersionI, staleVars, cancels, idxVars, cacheValid,
                 ctxDone, now, sleepUntil, sessions, listVars, ret, histVars,
                 panicked,
                 feedVars, issued>>

\* time.Sleep(wait) returns
SchedSleepDone ==
  /\ schedPC = "sleep"
  /\ now >= sleepUntil
  /\ schedPC' = "select"
  /\ UNCHANGED <<resourceVersionI, staleVars, cancels, idxVars, cacheValid,
                 ctxDone, now, sleepUntil, sessions, listVars, ret, histVars,
                 panicked,
                 feedVars, issued>>

\* ------------------------------------------------- the environment
\* The owner of the connection cancels the context given to NewAPIResourceInformer
CancelContext ==
  /\ ~ctxDone
  /\ ctxDone' = TRUE
  /\ UNCHANGED <<resourceVersionI, staleVars, cancels, idxVars, cacheValid,
                 now, schedVars, sessions, listVars, ret, histVars, panicked,
                 feedVars, issued>>

\* Time passes
Tick ==
  /\ now < MaxTime
  /\ now' = IF now + TickStep > MaxTime THEN MaxTime ELSE now + TickStep
  /\ UNCHANGED <<resourceVersionI, staleVars, cancels, idxVars, cacheValid,
                 ctxDone, schedVars, sessions, listVars, ret, histVars,
                 panicked,
                 feedVars, issued>>

\* ----------------------------------------------- specifications
\* The steps of the relist goroutine
Scheduler ==
  \/ SchedSelect
  \/ SchedSleep
  \/ SchedWave
  \/ SchedWait
  \/ SchedWoken
  \/ SchedSleepDone

\* Every operation, with every input
Next ==
  /\ ~panicked
  /\ \/ (resourceVersionI < MaxVersion /\ Invalidate)
     \/ (resourceVersionI < MaxVersion
         /\ NotifyAddOrUpdate(Objects \cup {NilObj}, GVRs))
     \/ (resourceVersionI < MaxVersion /\ NotifyDelete(Objects \cup {NilObj}))
     \/ \E optsRV \in RVChoices, t \in TimeoutChoices : Watch(optsRV, t)
     \/ \E id \in 1..MaxSessions : Stop(id)
     \/ \E id \in 1..MaxSessions : WatchGoroutine(id)
     \/ \E c \in Listers : (resourceVersionI < MaxVersion /\ ListLocked(c))
     \/ \E c \in Listers, answer \in DiscoveryAnswers : ListFetch(c, answer)
     \/ \E c \in Listers : ListReturn(c)
     \/ Scheduler
     \/ CancelContext
     \/ Tick

Spec == Init /\ [][Next]_vars

\* The version counter and the List / Watch protocol.  resourceVersionI, ret,
\* listed, listPC and listRV are written by these operations only; the clock
\* stands still and no watch ends.
NextVersions ==
  \/ (resourceVersionI < MaxVersion /\ Invalidate)
  \/ (resourceVersionI < MaxVersion
      /\ NotifyAddOrUpdate({NilObj, ObjWidget}, {GVRWidgets}))
  \/ (resourceVersionI < MaxVersion /\ NotifyDelete({NilObj, ObjWidget}))
  \/ \E optsRV \in RVChoices, t \in TimeoutChoices : Watch(optsRV, t)
  \/ \E c \in Listers : (resourceVersionI < MaxVersion /\ ListLocked(c))
  \/ \E c \in Listers : ListFetch(c, NoData)
  \/ \E c \in Listers : ListReturn(c)

SpecVersions == Init /\ [][NextVersions]_vars

\* The relist goroutine, the clock and the discovery cache: needRelist,
\* relistAfter, schedPC, sleepUntil and cacheValid are written by these
\* operations only.  Watch is called with the current version.
NextSched ==
  \/ (resourceVersionI < MaxVersion /\ Invalidate)
  \/ (resourceVersionI < MaxVersion /\ NotifyAddOrUpdate({ObjWidget}, {GVRWidgets}))
  \/ \E optsRV \in RVCurrent : Watch(optsRV, 20)
  \/ (resourceVersionI < MaxVersion /\ ListLocked(1))
  \/ ListFetch(1, NoData)
  \/ ListReturn(1)
  \/ Scheduler
  \/ CancelContext
  \/ Tick

SpecSched == Init /\ [][NextSched]_vars

\* The watch sessions: every operation that writes sessions or cancels, or
\* that a session's end depends on.  Invalidation carries no definer.
NextWatch ==
  \/ (resourceVersionI < MaxVersion /\ Invalidate)
  \/ \E optsRV \in RVCurrent, t \in TimeoutChoices : Watch(optsRV, t)
  \/ \E id \in 1..MaxSessions : Stop(id)
  \/ \E id \in 1..MaxSessions : WatchGoroutine(id)
  \/ (resourceVersionI < MaxVersion /\ ListLocked(1))
  \/ ListFetch(1, NoData)
  \/ ListReturn(1)
  \/ Scheduler
  \/ CancelContext
  \/ Tick

SpecWatch == Init /\ [][NextWatch]_vars

\* The definer index: rscToDefiners and definerToRscs are written by
\* invalidateWithDefinerLocked only.
NextIndex ==
  /\ ~panicked
  /\ \/ (resourceVersionI < MaxIndexVersion /\ Invalidate)
     \/ (resourceVersionI < MaxIndexVersion
         /\ NotifyAddOrUpdateLogged(Objects \cup {NilObj}, GVRs))
     \/ (resourceVersionI < MaxIndexVersion
         /\ NotifyDeleteLogged(Objects \cup {NilObj}))
     \/ (resourceVersionI < MaxIndexVersion /\ ListLocked(1))
     \/ ListFetch(1, NoData)
     \/ ListReturn(1)

SpecIndex == Init /\ [][NextIndex]_vars

\* What List returns: the discovery feed, the enumeration against the
\* definer index and the subresource tree, in both modes of the informer.
NextList ==
  \/ (resourceVersionI < MaxListVersion /\ NotifyAddOrUpdateLogged(GoodObjects, GVRs))
  \/ (resourceVersionI < MaxListVersion /\ NotifyDeleteLogged(GoodObjects))
  \/ (resourceVersionI < MaxListVersion /\ ListLocked(1))
  \/ \E answer \in DiscoveryAnswers : ListFetch(1, answer)
  \/ ListReturnLogged(1)

SpecList == InitAny /\ [][NextList]_vars

\* The relist goroutine and the end of the connection's context.  An
\* invalidation is made only while its deadline lies within the clock's range.
NextLifetime ==
  \/ (resourceVersionI < MaxVersion /\ now + RelistDelay <= MaxTime /\ Invalidate)
  \/ \E optsRV \in RVCurrent : Watch(optsRV, 20)
  \/ Scheduler
  \/ CancelContext
  \/ Tick

\* The Go scheduler runs the relist goroutine whenever it can take a step,
\* and time passes; nothing obliges anyone to invalidate.
SpecLifetime ==
  Init /\ [][NextLifetime]_vars /\ WF_vars(Scheduler) /\ WF_vars(Tick)

\* Invalidations that carry no definer beside those that do, with the relist
\* goroutine, the discovery cache and the clock.
NextFrame ==
  /\ ~panicked
  /\ \/ (resourceVersionI < MaxVersion /\ Invalidate)
     \/ (resourceVersionI < MaxVersion
         /\ NotifyAddOrUpdate({NilObj, ObjWidget}, {GVRWidgets}))
     \/ (resourceVersionI < MaxVersion /\ NotifyDelete({NilObj, ObjWidget}))
     \/ (resourceVersionI < MaxVersion /\ ListLocked(1))
     \/ ListFetch(1, NoData)
     \/ ListReturn(1)
     \/ Scheduler
     \/ Tick

SpecFrame == Init /\ [][NextFrame]_vars

\* Two notification sources whose callbacks run concurrently: one reports the
\* definer Widget, which defines widgets or nothing, the other the definer b,
\* which defines gadgets or nothing.  Two callers of List run beside them.
NextConc ==
  \/ (resourceVersionI < MaxIndexVersion
      /\ NotifyAddOrUpdateLogged({ObjWidget}, {GVRWidgets}))
  \/ (resourceVersionI < MaxIndexVersion /\ NotifyDeleteLogged({ObjWidget}))
  \/ (resourceVersionI < MaxIndexVersion
      /\ NotifyAddOrUpdateLogged({ObjBinding}, {GVRGadgets}))
  \/ (resourceVersionI < MaxIndexVersion /\ NotifyDeleteLogged({ObjBinding}))
  \/ \E c \in Listers : (resourceVersionI < MaxIndexVersion /\ ListLocked(c))
  \/ \E c \in Listers : ListFetch(c, FeedExample)
  \/ \E c \in Listers : ListReturn(c)

SpecConc == Init /\ [][NextConc]_vars

\* ------------------------------------------------------------ claims
\* The integer a decimal string denotes, for the strings FormatInt produces
VersionOf(str) ==
  CHOOSE v \in 0..(MaxVersion + MaxIndexVersion) : FormatInt(v) = str

\* A step of Invalidate or of InvalidateWithDefiner, with any input
InvalidationStep ==
  \/ invalidateWithDefinerLocked(NilObj, Nil, FALSE, {})
  \/ \E obj \in Objects \cup {NilObj}, supplier \in Suppliers, defined \in SUBSET GVRs :
       InvalidateWithDefiner(obj, supplier, TRUE, defined)
  \/ \E obj \in Objects \cup {NilObj}, supplier \in Suppliers :
       InvalidateWithDefiner(obj, supplier, FALSE, {})

\* The first critical section of some List call
ListLockedStep == \E c \in Listers : ListLocked(c)

\* A call of Watch, with any input
WatchStep == \E optsRV \in RVChoices, t \in TimeoutChoices : Watch(optsRV, t)

\* C1: the version counter never decreases in any step, and every step of
\* Invalidate, of InvalidateWithDefiner and of List's locked section strictly
\* increases it (so no value is ever taken twice).
C1_VersionNeverDecreasesNorRepeats ==
  [][/\ resourceVersionI' >= resourceVersionI
     /\ (InvalidationStep \/ ListLockedStep) => resourceVersionI' > resourceVersionI
    ]_vars

\* An InvalidateWithDefiner and a List have both advanced the counter.
C1_Witness ==
  /\ resourceVersionI = InitialVersion + 2
  /\ needRelist
  /\ DOMAIN definerToRscs # {}
  /\ listed # {}

\* C2: a Watch call succeeds exactly when the string it was given is the
\* decimal form of the version current at the call; a success registers one
\* session and one cancel func, a failure is the expired error and registers
\* nothing; a string an earlier List returned whose version has been
\* superseded always fails.
C2_WatchOnlyAtCurrentVersion ==
  [][WatchStep =>
       /\ ret'.op = "Watch"
       /\ (ret'.err = "nil") <=> (ret'.rv = FormatInt(resourceVersionI))
       /\ ret'.err = "nil" =>
            /\ Len(sessions') = Len(sessions) + 1
            /\ Len(cancels') = Len(cancels) + 1
       /\ ret'.err # "nil" =>
            /\ ret'.err = "Expired"
            /\ sessions' = sessions
            /\ cancels' = cancels
       /\ (ret'.rv \in listed /\ VersionOf(ret'.rv) < resourceVersionI)
            => ret'.err = "Expired"
    ]_vars

\* A Watch with a version that List returned and that was then superseded
\* has been refused.
C2_Witness ==
  /\ ret.op = "Watch"
  /\ ret.err = "Expired"
  /\ ret.rv \in listed
  /\ VersionOf(ret.rv) < resourceVersionI

\* C3: a List call's stamp is the counter value its own increment produced;
\* it is greater than every version a List has returned before, it differs
\* from the stamp of every other call in progress, and the string it returns
\* has never been returned before.
C3_ListStampsItsOwnVersion ==
  /\ [](\A c \in Listers :
          listPC[c] # "idle" =>
            /\ FormatInt(listRV[c]) \notin listed
            /\ \A d \in Listers \ {c} : listPC[d] # "idle" => listRV[d] # listRV[c])
  /\ [][\A c \in Listers :
          /\ ListLocked(c) =>
               /\ listRV'[c] = resourceVersionI + 1
               /\ listRV'[c] = resourceVersionI'
               /\ \A str \in listed : VersionOf(str) < listRV'[c]
          /\ ListReturn(c) =>
               /\ ret'.op = "List"
               /\ ret'.rv = FormatInt(listRV[c])
               /\ ret'.rv \notin listed
       ]_vars

\* Two List calls are in progress at once, both about to return.
C3_Witness ==
  \E c, d \in Listers : c # d /\ listPC[c] = "enum" /\ listPC[d] = "enum"

\* C4: the invalidations of one burst (each made before the deadline set by
\* the one before has expired) lead to one cancel-all wave of the relist
\* goroutine: while the content is flagged stale no wave of the burst has
\* happened, and once the flag is cleared exactly one has.
C4_OneWavePerBurst ==
  invInBurst >= 1 =>
    /\ needRelist => wavesInBurst = 0
    /\ ~needRelist => wavesInBurst = 1

\* A burst of two invalidations has been answered by its single wave.
C4_Witness == invInBurst >= 2 /\ wavesInBurst = 1 /\ ~needRelist

\* C5: the relist deadline is always 20 seconds after the most recent
\* invalidation (only an invalidation moves it), and a cancel-all wave
\* happens only in a state where needRelist is set and the clock has reached
\* that deadline, however the goroutine's sleep was timed.
C5_WaveOnlyAfterDeadline ==
  [][/\ InvalidationStep => relistAfter' = now + 20
     /\ relistAfter' # relistAfter => InvalidationStep
     /\ wavesInBurst' = wavesInBurst + 1 =>
          /\ needRelist
          /\ ~needRelist'
          /\ now >= relistAfter
    ]_vars

\* The goroutine's sleep is over, the deadline was pushed beyond it by a
\* second invalidation, and no wave has happened.
C5_Witness ==
  /\ schedPC = "sleep"
  /\ now >= sleepUntil
  /\ now < relistAfter
  /\ invInBurst >= 2
  /\ needRelist
  /\ wavesInBurst = 0

\* C6: the discovery cache asks the client again only once the debounce delay
\* since the most recent invalidation has elapsed.
C6_RequeryOnlyAfterDelay ==
  [][(~cacheValid /\ cacheValid') => now >= relistAfter]_vars

\* C7: every session is tracked in cancels; List's locked section leaves
\* every session registered before it cancelled; so a session registered at a
\* version below the stamp of a List (in progress or returned) is cancelled,
\* and its goroutine has closed the channel or is free to.
C7_ListCancelsEveryTrackedSession ==
  /\ [](\A id \in 1..Len(sessions) :
          /\ \E i \in 1..Len(cancels) : cancels[i] = id
          /\ (\/ \E c \in Listers : listPC[c] # "idle" /\ listRV[c] > sessions[id].rv
              \/ \E str \in listed : VersionOf(str) > sessions[id].rv)
             => /\ sessions[id].cancelled
                /\ sessions[id].goroutine = "waiting" => ENABLED WatchGoroutine(id))
  /\ [][ListLockedStep =>
          \A id \in 1..Len(sessions) : sessions'[id].cancelled]_vars

\* A List in progress has cancelled two sessions that neither a timeout nor
\* the end of the context had ended.
C7_Witness ==
  /\ Len(sessions) = 2
  /\ listPC[1] = "fetch"
  /\ ~ctxDone
  /\ \A id \in 1..2 :
       /\ sessions[id].cancelled
       /\ sessions[id].rv < listRV[1]
       /\ now < sessions[id].deadline
       /\ sessions[id].goroutine = "waiting"

\* C8: no session's channel ever holds or has delivered an event; a channel
\* is open or has been closed once.
C8_NoEventIsEverDelivered ==
  \A id \in 1..Len(sessions) :
    /\ sessions[id].results = <<>>
    /\ sessions[id].closes \in {0, 1}
    /\ sessions[id].closes = 1 <=> sessions[id].goroutine = "exited"

\* A session's channel has been closed, and nothing was sent on it.
C8_Witness ==
  \E id \in 1..Len(sessions) :
    sessions[id].closes = 1 /\ sessions[id].results = <<>>

\* The watch sessions, with the fairness of the Go scheduler (a goroutine
\* that can run does run) and of the clock (time passes).
LiveSpec ==
  /\ Init
  /\ [][NextWatch]_vars
  /\ WF_vars(Tick)
  /\ \A id \in 1..MaxSessions : WF_vars(WatchGoroutine(id))

\* C9: every registered session's channel is eventually closed, and it is
\* closed only once its context is done: cancelled (by Stop, a List or a
\* wave), the connection's context ended, or the timeout elapsed.
C9_EverySessionEnds ==
  /\ \A id \in 1..MaxSessions :
       (Len(sessions) >= id)
         ~> (Len(sessions) >= id /\ sessions[id].goroutine = "exited")
  /\ [](\A id \in 1..Len(sessions) :
          sessions[id].goroutine = "exited" =>
            \/ sessions[id].cancelled
            \/ ctxDone
            \/ now >= sessions[id].deadline)

\* A session has ended by its timeout alone.
C9_Witness ==
  \E id \in 1..Len(sessions) :
    /\ sessions[id].goroutine = "exited"
    /\ ~sessions[id].cancelled
    /\ ~ctxDone

\* C10: the two mappings of the definer index mirror each other: d is among
\* the definers of r exactly when r is among the resources of d.
C10_DefinerSymmetry ==
  LET ds == ObjectIDs \cup DOMAIN definerToRscs
              \cup UNION {rscToDefiners[r] : r \in DOMAIN rscToDefiners}
      rs == GVRs \cup DOMAIN rscToDefiners
              \cup UNION {definerToRscs[d] : d \in DOMAIN definerToRscs}
  IN \A d \in ds, r \in rs :
       d \in MapGet(rscToDefiners, r) <=> r \in MapGet(definerToRscs, d)

\* Two definers were added for widgets and one of them was then updated to
\* define gadgets instead.
C10_Witness ==
  /\ MapGet(definerToRscs, ObjectIDOf(ObjWidget)) = {GVRGadgets}
  /\ MapGet(definerToRscs, ObjectIDOf(ObjBinding)) = {GVRWidgets}
  /\ MapGet(rscToDefiners, GVRWidgets) = {ObjectIDOf(ObjBinding)}
  /\ resourceVersionI = InitialVersion + 3

\* A step of the DeleteFunc of a notifier for the definer obj
DeleteStep(obj) == InvalidateWithDefiner(obj, Supplier, FALSE, {})

\* C11: neither mapping of the definer index ever holds an empty set, and
\* a deletion (InvalidateWithDefiner with set = false) leaves the definer
\* without a forward entry and in no resource's reverse entry.
C11_NoEmptySetRetained ==
  /\ [](/\ \A d \in DOMAIN definerToRscs : definerToRscs[d] # {}
        /\ \A r \in DOMAIN rscToDefiners : rscToDefiners[r] # {})
  /\ [][\A obj \in GoodObjects :
          DeleteStep(obj) =>
            /\ ObjectIDOf(obj) \notin DOMAIN definerToRscs'
            /\ \A r \in DOMAIN rscToDefiners' :
                 ObjectIDOf(obj) \notin rscToDefiners'[r]
       ]_vars

\* The definer Widget was deleted; widgets is still defined by the other
\* definer and gadgets, which only Widget could have left, has no entry.
C11_Witness ==
  /\ ObjectIDOf(ObjWidget) \in DOMAIN issued
  /\ ~issued[ObjectIDOf(ObjWidget)].present
  /\ ObjectIDOf(ObjWidget) \notin DOMAIN definerToRscs
  /\ MapGet(definerToRscs, ObjectIDOf(ObjBinding)) = {GVRWidgets}
  /\ MapGet(rscToDefiners, GVRWidgets) = {ObjectIDOf(ObjBinding)}
  /\ GVRGadgets \notin DOMAIN rscToDefiners

\* The definer index after the calls in calls (a function from definer to
\* its call) were applied one after the other, in the given order
RECURSIVE SerialIndex(_, _)
SerialIndex(order, calls) ==
  IF order = <<>> THEN [r2d |-> <<>>, d2r |-> <<>>]
  ELSE LET before == SerialIndex(SubSeq(order, 1, Len(order) - 1), calls)
           d == order[Len(order)]
       IN setDefinerLocked(before.r2d, before.d2r, d, calls[d].rscs)

\* C12: however the callbacks of the notification sources interleave (with
\* distinct definers and disjoint resource sets), the definer index is the
\* one that applying each definer's latest call in some serial order gives,
\* every entry is there once, and the version counter has advanced once per
\* call (and once per List).
C12_ConcurrentCallsSerialize ==
  /\ \E order \in Perms(DOMAIN issued) :
       SerialIndex(order, issued) = [r2d |-> rscToDefiners, d2r |-> definerToRscs]
  /\ \A d \in DOMAIN issued :
       /\ MapGet(definerToRscs, d) = issued[d].rscs
       /\ \A r \in GVRs : d \in MapGet(rscToDefiners, r) <=> r \in issued[d].rscs
  /\ resourceVersionI = InitialVersion + invInBurst + Cardinality(listed)
                          + Cardinality({c \in Listers : listPC[c] # "idle"})

\* Both sources have reported their definer, and both entries are in the
\* index, after exactly two calls.
C12_Witness ==
  /\ MapGet(definerToRscs, ObjectIDOf(ObjWidget)) = {GVRWidgets}
  /\ MapGet(definerToRscs, ObjectIDOf(ObjBinding)) = {GVRGadgets}
  /\ MapGet(rscToDefiners, GVRWidgets) = {ObjectIDOf(ObjWidget)}
  /\ MapGet(rscToDefiners, GVRGadgets) = {ObjectIDOf(ObjBinding)}
  /\ invInBurst = 2
  /\ resourceVersionI = InitialVersion + 2

\* C13: a List whose discovery query failed still returns a nil error and a
\* collection stamped with its new version, built from the data that came
\* with the error: nothing when there was none, the one resource of the
\* partial answer otherwise, in either mode of the informer.
C13_ListNeverFailsOnDiscoveryError ==
  ret.op = "List" =>
    /\ ret.err = "nil"
    /\ ret.rv \in listed
    /\ VersionOf(ret.rv) > InitialVersion
    /\ \A i \in 1..Len(ret.items) : ret.items[i].ResourceVersion = ret.rv
    /\ lastList.feed = FailedNoData => ret.items = <<>>
    /\ lastList.feed = FailedPartial =>
         /\ Len(ret.items) = 1
         /\ Str(ret.items[1].Name) = "example.com:v1:widgets"

\* A List without subresources has returned the one resource that came with
\* a discovery error.
C13_Witness ==
  /\ ret.op = "List"
  /\ lastList.feed.err
  /\ ~includeSubresources
  /\ Len(ret.items) = 1
  /\ ret.err = "nil"

\* The names and nesting of a list of specs, without their order
RECURSIVE TreeOf(_)
TreeOf(specs) ==
  {[Name |-> specs[i].Name, Subs |-> TreeOf(specs[i].SubResources)] :
     i \in 1..Len(specs)}

\* No name occurs twice among the specs of one level, at any depth
RECURSIVE NoSpecTwice(_)
NoSpecTwice(specs) ==
  /\ \A i, j \in 1..Len(specs) : specs[i].Name = specs[j].Name => i = j
  /\ \A i \in 1..Len(specs) : NoSpecTwice(specs[i].SubResources)

\* The tree that the set of paths denotes below prefix: a node for every
\* path that extends prefix by one segment, with its own subtree
RECURSIVE TreeOfPaths(_, _)
TreeOfPaths(paths, prefix) ==
  {[Name |-> p[Len(p)], Subs |-> TreeOfPaths(paths, p)] :
     p \in {q \in paths : Len(q) = Len(prefix) + 1
                           /\ SubSeq(q, 1, Len(prefix)) = prefix}}

\* The paths a feed reports in the groups listWithSubresources accepts
PathsOf(feed) ==
  UNION {{Split(feed.resourceList[g].APIResources[i].Name) :
            i \in 1..Len(feed.resourceList[g].APIResources)} :
           g \in {h \in 1..Len(feed.resourceList) :
                    LET gv == ParseGroupVersion(feed.resourceList[h].GroupVersion)
                    IN ~gv.err /\ groupToVersion(feed.groupList, gv.Group) = gv.Version}}

\* The specs of the items of a List
SpecsOf(items) == [i \in 1..Len(items) |-> items[i].Spec]

\* C14: the specs a subresource-aware List emits are, once each, the
\* single-segment paths of the feed that have a spec, each with its
\* spec-bearing children nested below it, recursively; a path whose parent
\* has no spec of its own is not emitted at any level.  For pods,
\* pods/status, pods/scale, pods/scale/status and widgets/status that is the
\* one spec pods with the subresources status and scale.
C14_SubresourceTree ==
  (ret.op = "List" /\ includeSubresources) =>
    /\ TreeOf(SpecsOf(ret.items)) = TreeOfPaths(PathsOf(lastList.feed), <<>>)
    /\ NoSpecTwice(SpecsOf(ret.items))
    /\ lastList.feed = FeedCore =>
         /\ Len(ret.items) = 1
         /\ Str(ret.items[1].Spec.Name) = "pods"
         /\ {Str(s.Name) : s \in TreeOf(ret.items[1].Spec.SubResources)}
              = {"status", "scale"}

\* A List of pods, pods/status, pods/scale, pods/scale/status and
\* widgets/status has returned.
C14_Witness ==
  /\ ret.op = "List"
  /\ includeSubresources
  /\ lastList.feed = FeedCore
  /\ Len(ret.items) = 1
  /\ Len(ret.items[1].Spec.SubResources) = 2

\* Every spec of a list of specs, at any depth, as the GVR it was enumerated
\* for and the definers it carries; prefix is the path of the parent
RECURSIVE EmittedSpecs(_, _)
EmittedSpecs(specs, prefix) ==
  UNION {LET s == specs[i]
             full == IF prefix = <<>> THEN s.Name ELSE prefix \o Slash \o s.Name
         IN {[gvr |-> [Group |-> Str(s.Group), Version |-> Str(s.Version),
                       Resource |-> Str(full)],
              definers |-> s.Definers]}
              \cup EmittedSpecs(s.SubResources, full) :
           i \in 1..Len(specs)}

\* The {kind, name} pair that List reports for a definer
DefinerRef(d) == [Kind |-> d.Kind, Name |-> d.Name]

\* C15: the definers a List attaches to each resource it emits are those of
\* the definer index at its enumeration: a definer whose latest
\* InvalidateWithDefiner call (with set = true) enumerated the resource's GVR
\* is listed, and every listed pair is that of a definer that currently
\* defines the GVR.  End to end, for the feed widgets, widgets/status with
\* the definer {CRD, Widget} of widgets, the item example.com:v1:widgets
\* carries that one definer and the one nested subresource status.
C15_ListAttachesCurrentDefiners ==
  [][ListReturnLogged(1) =>
       /\ \A e \in EmittedSpecs(SpecsOf(ret'.items), <<>>) :
            /\ \A d \in DOMAIN issued :
                 (issued[d].present /\ e.gvr \in issued[d].rscs)
                   => \E i \in 1..Len(e.definers) : e.definers[i] = DefinerRef(d)
            /\ \A i \in 1..Len(e.definers) :
                 \E d \in DOMAIN definerToRscs :
                   e.gvr \in definerToRscs[d] /\ e.definers[i] = DefinerRef(d)
            /\ Len(e.definers) = Cardinality(MapGet(rscToDefiners, e.gvr))
       /\ (/\ fetched[1] = FeedExample
           /\ includeSubresources
           /\ MapGet(rscToDefiners, GVRWidgets) = {ObjectIDOf(ObjWidget)})
          => \E k \in 1..Len(ret'.items) :
               /\ Str(ret'.items[k].Name) = "example.com:v1:widgets"
               /\ ret'.items[k].Spec.Definers = <<[Kind |-> "CRD", Name |-> "Widget"]>>
               /\ Len(ret'.items[k].Spec.SubResources) = 1
               /\ Str(ret'.items[k].Spec.SubResources[1].Name) = "status"
    ]_vars

\* The end-to-end case: a subresource-aware List of widgets, widgets/status
\* and gadgets, with Widget the only definer of widgets, has returned.
C15_Witness ==
  /\ ret.op = "List"
  /\ includeSubresources
  /\ lastList.feed = FeedExample
  /\ lastList.r2d = rscToDefiners
  /\ MapGet(rscToDefiners, GVRWidgets) = {ObjectIDOf(ObjWidget)}
  /\ ObjectIDOf(ObjWidget) \in DOMAIN issued
  /\ issued[ObjectIDOf(ObjWidget)].present
  /\ \E k \in 1..Len(ret.items) :
       /\ Str(ret.items[k].Name) = "example.com:v1:widgets"
       /\ ret.items[k].Spec.Definers = <<[Kind |-> "CRD", Name |-> "Widget"]>>

\* The items of a List without their version stamp
Unstamped(items) ==
  [i \in 1..Len(items) |-> [Name |-> items[i].Name, Spec |-> items[i].Spec]]

\* C16: a List that works from the same discovery answer and the same
\* definer index as the List before it returns the same items in the same
\* order, each with the same definers and subresources in the same order.
C16_ListOutputDeterministic ==
  [][(/\ ListReturnLogged(1)
      /\ lastList.made
      /\ fetched[1] = lastList.feed
      /\ rscToDefiners = lastList.r2d)
       => Unstamped(ret'.items) = Unstamped(lastList.items)
    ]_vars

\* C17: once the connection's context has ended, the relist goroutine
\* eventually exits, whether it was idle in cond.Wait or asleep until the
\* relist deadline, and with no further invalidation.
C17_SchedulerExitsWhenContextEnds == ctxDone ~> (schedPC = "exited")

\* A step of List outside its first critical section
ListRestStep ==
  \/ \E c \in Listers, answer \in DiscoveryAnswers : ListFetch(c, answer)
  \/ \E c \in Listers : ListReturn(c)
  \/ \E c \in Listers : ListReturnLogged(c)

\* C18: needRelist goes from set to cleared only in the wave step of the
\* relist goroutine, taken when the clock has reached relistAfter, and that
\* step leaves every session in cancels cancelled; List and Watch leave
\* needRelist and relistAfter as they are, and an invalidation sets the flag.
C18_OnlyTheWaveClearsStaleness ==
  [][/\ (needRelist /\ ~needRelist') =>
          /\ SchedWave
          /\ now >= relistAfter
          /\ \A i \in 1..Len(cancels) : sessions'[cancels[i]].cancelled
     /\ (ListLockedStep \/ ListRestStep \/ WatchStep) =>
          /\ needRelist' = needRelist
          /\ relistAfter' = relistAfter
     /\ InvalidationStep => needRelist'
    ]_vars

\* After a List, an invalidation and a Watch at the new version, the wave has
\* cancelled the session and cleared the flag.
C18_Witness ==
  /\ ~needRelist
  /\ wavesInBurst = 1
  /\ listed # {}
  /\ listPC[1] = "idle"
  /\ ~ctxDone
  /\ \E id \in 1..Len(sessions) :
       /\ sessions[id].cancelled
       /\ now < sessions[id].deadline
       /\ \A str \in listed : VersionOf(str) <= sessions[id].rv

\* C19: every cancel func in rlw.cancels belongs to a session whose stream
\* has not ended.
C19_CancelsHoldOpenSessionsOnly ==
  \A i \in 1..Len(cancels) : sessions[cancels[i]].goroutine # "exited"

\* C20: an InvalidateWithDefiner call with set = true for a definer leaves
\* exactly the enumerated GVRs as that definer's resources (it is among the
\* definers of a GVR exactly when the GVR was enumerated, whatever it defined
\* before), and leaves every other definer's resources and memberships as
\* they were.
C20_InstallReplacesOnlyThatDefiner ==
  [][\A obj \in GoodObjects, defined \in SUBSET GVRs :
       InvalidateWithDefiner(obj, Supplier, TRUE, defined) =>
         /\ MapGet(definerToRscs', ObjectIDOf(obj)) = defined
         /\ \A r \in GVRs :
              ObjectIDOf(obj) \in MapGet(rscToDefiners', r) <=> r \in defined
         /\ \A d \in ObjectIDs \ {ObjectIDOf(obj)} :
              /\ MapGet(definerToRscs', d) = MapGet(definerToRscs, d)
              /\ \A r \in GVRs :
                   d \in MapGet(rscToDefiners', r) <=> d \in MapGet(rscToDefiners, r)
    ]_vars

\* The definer b defines both resources; Widget, after three calls in all,
\* defines gadgets and no longer widgets.
C20_Witness ==
  /\ ObjectIDOf(ObjWidget) \in DOMAIN issued
  /\ issued[ObjectIDOf(ObjWidget)] = [present |-> TRUE, rscs |-> {GVRGadgets}]
  /\ MapGet(definerToRscs, ObjectIDOf(ObjWidget)) = {GVRGadgets}
  /\ MapGet(definerToRscs, ObjectIDOf(ObjBinding)) = GVRs
  /\ MapGet(rscToDefiners, GVRWidgets) = {ObjectIDOf(ObjBinding)}
  /\ invInBurst = 3

\* An invalidation that names no definer: Invalidate(), or a notification
\* whose object or whose supplier is nil
NoDefinerStep ==
  \/ invalidateWithDefinerLocked(NilObj, Nil, FALSE, {})
  \/ \E obj \in Objects \cup {NilObj}, supplier \in Suppliers, set \in BOOLEAN,
        defined \in SUBSET GVRs :
       /\ obj.nil \/ supplier = Nil
       /\ InvalidateWithDefiner(obj, supplier, set, defined)

\* What every invalidation does before it looks at its arguments
Bookkeeping ==
  /\ resourceVersionI' = resourceVersionI + 1
  /\ ~cacheValid'
  /\ relistAfter' = now + RelistDelay
  /\ needRelist'
  /\ schedPC = "condwait" => schedPC' = "woken"

C22_StaleOpenSessionMeansStale ==
  \A id \in 1..Len(sessions) :
    (~sessions[id].cancelled /\ sessions[id].rv < resourceVersionI) => needRelist

\* C22 witness: an earlier session was cancelled, a later one was registered
\* at the version that followed, and an invalidation has left it, still
\* uncancelled, behind the current version
C22_Witness ==
  /\ Len(sessions) = 2
  /\ sessions[1].cancelled
  /\ sessions[1].rv < sessions[2].rv
  /\ ~sessions[2].cancelled
  /\ sessions[2].rv < resourceVersionI
  /\ needRelist
  /\ now >= RelistDelay

\* C23: no wake-up is lost.  While the connection's context is not done, a
\* catalog that an invalidation made stale is followed, once invalidations
\* stop, by a wave of the relist goroutine: needRelist becomes false and every
\* session registered before the last invalidation is cancelled, wherever
\* the goroutine was (checking, parked in cond.Wait, asleep) when the
\* invalidation broadcast.
C23_NoLostWakeUp ==
  needRelist ~>
    \/ ctxDone
    \/ /\ ~needRelist
       /\ \A id \in 1..Len(sessions) :
            sessions[id].rv < resourceVersionI => sessions[id].cancelled

\* C23 witness: the relist goroutine was parked in cond.Wait when an
\* invalidation broadcast, with a session open and the context not done
C23_Witness ==
  /\ schedPC = "woken"
  /\ needRelist
  /\ ~ctxDone
  /\ \E id \in 1..Len(sessions) :
       ~sessions[id].cancelled /\ sessions[id].rv < resourceVersionI

\* C24: a session's channel is closed exactly once.  No step closes a channel
\* a second time, the goroutine that closes it has exited when it is closed,
\* and once a session has ended, nothing that cancels it again (Stop, List,
\* the wave, the timeout, the end of the context) changes its channel.
C24_ChannelClosedOnce ==
  [][/\ Len(sessions') >= Len(sessions)
     /\ \A id \in 1..Len(sessions) :
          /\ sessions'[id].closes <= 1
          /\ (sessions'[id].closes = 1) = (sessions'[id].goroutine = "exited")
          /\ sessions[id].goroutine = "exited" =>
               /\ sessions'[id].goroutine = "exited"
               /\ sessions'[id].closes = sessions[id].closes
               /\ sessions'[id].results = sessions[id].results]_vars

\* C24 witness: a session whose channel was closed once although List and the
\* wave both cancelled it, its timeout elapsed and the context ended
C24_Witness ==
  /\ Len(sessions) >= 1
  /\ sessions[1].closes = 1
  /\ sessions[1].goroutine = "exited"
  /\ sessions[1].cancelled
  /\ sessions[1].rv = InitialVersion
  /\ resourceVersionI = InitialVersion + 2
  /\ listed # {}
  /\ wavesInBurst >= 1
  /\ now >= sessions[1].deadline
  /\ ctxDone

====
